---- MODULE Spec2Model ----
(***************************************************************************)
(* A model of setigen's Frame (src/setigen/frame.py): the time-frequency   *)
(* grid, its axes, its noise statistics and the operations that inject     *)
(* noise and signals.                                                      *)
(*                                                                         *)
(* Numbers.  Frequencies, times and resolutions are integers (Hz, s).      *)
(* Intensities, sub-sample coordinates and statistics are exact rationals  *)
(* <<n, d>> in lowest terms with d > 0; float64 rounding is not modelled.  *)
(* A standard deviation is carried as its radicand: noise_std = q stands   *)
(* for sqrt(q), so noise_std = Zero exactly when the deviation is 0.       *)
(* Indices are 0-based as in the source; sequences are 1-based.            *)
(***************************************************************************)
EXTENDS Integers, Sequences, FiniteSets, TLC

VARIABLES
    fchans,      \* self.fchans
    tchans,      \* self.tchans
    shape,       \* self.shape = <<tchans, fchans>>
    df,          \* self.df
    dt,          \* self.dt
    fch1,        \* self.fch1
    fmax,        \* self.fmax
    fmin,        \* self.fmin
    fs,          \* self.fs
    ts,          \* self.ts
    data,        \* self.data, a sequence of rows
    noise_mean,  \* self.noise_mean
    noise_std,   \* self.noise_std (as its radicand)
    metadata,    \* self.metadata
    shared,      \* the array the caller handed over, and whether self.data is it
    last,        \* the last call: its name, arguments and outcome
    hist         \* history: the grid given at construction, calls made so far

vars == <<fchans, tchans, shape, df, dt, fch1, fmax, fmin, fs, ts, data,
          noise_mean, noise_std, metadata, shared, last, hist>>

frame == <<fchans, tchans, shape, df, dt, fch1, fmax, fmin, fs, ts, data,
           noise_mean, noise_std, metadata>>

----------------------------------------------------------------------------
(* Bounds of the model *)

MaxTchans == 2
MaxFchans == 4
MaxOps == 2

\* Shapes <<tchans, fchans>> of the grids a caller works with
ShapeInputs == {<<MaxTchans - 1, MaxFchans - 1>>, <<MaxTchans, MaxFchans>>}

\* Resolutions a caller passes; a negative df is accepted (abs).
DfInputs == {2, -3}
DtInputs == {1, 2}
Fch1Inputs == {10}

----------------------------------------------------------------------------
(* Exact rational arithmetic *)

Abs(x) == IF x < 0 THEN -x ELSE x
Min(a, b) == IF a <= b THEN a ELSE b
Max(a, b) == IF a >= b THEN a ELSE b

RECURSIVE Gcd(_, _)
Gcd(a, b) == IF b = 0 THEN a ELSE Gcd(b, a % b)

Rat(n, d) ==
    LET g == Gcd(Abs(n), Abs(d))
        s == IF d < 0 THEN -1 ELSE 1
    IN  <<(s * n) \div g, (s * d) \div g>>

R(i) == <<i, 1>>
Zero == <<0, 1>>
RAdd(a, b) == Rat(a[1] * b[2] + b[1] * a[2], a[2] * b[2])
RSub(a, b) == Rat(a[1] * b[2] - b[1] * a[2], a[2] * b[2])
RMul(a, b) == Rat(a[1] * b[1], a[2] * b[2])
RDiv(a, b) == Rat(a[1] * b[2], a[2] * b[1])
RLe(a, b) == a[1] * b[2] <= b[1] * a[2]
RLt(a, b) == a[1] * b[2] < b[1] * a[2]
RAbs(a) == <<Abs(a[1]), a[2]>>
RMax(a, b) == IF RLe(a, b) THEN b ELSE a

\* np.floor, np.ceil
Floor(a) == a[1] \div a[2]
Ceil(a) == -((-a[1]) \div a[2])

\* np.round: to the nearest integer, halves to the even one
RoundHalfEven(a) ==
    LET fl == Floor(a)
        twice == 2 * (a[1] - fl * a[2])
    IN  IF twice < a[2] THEN fl
        ELSE IF twice > a[2] THEN fl + 1
        ELSE IF fl % 2 = 0 THEN fl ELSE fl + 1

\* A sequence held as an explicit tuple, its elements evaluated once
Tup(s) == SubSeq(s, 1, Len(s))

RECURSIVE RSum(_)
RSum(s) == IF s = <<>> THEN Zero ELSE RAdd(Head(s), RSum(Tail(s)))

\* np.mean of a non-empty sequence
Mean(s) == RDiv(RSum(s), R(Len(s)))

\* np.std squared (ddof = 0): the mean of the squares less the square of
\* the mean, which in exact arithmetic is mean(abs(x - x.mean())**2)
Variance(s) ==
    LET m == Mean(s)
    IN  RSub(Mean(Tup([i \in 1..Len(s) |-> RMul(s[i], s[i])])), RMul(m, m))

----------------------------------------------------------------------------
(* Arrays *)

\* np.zeros(shape), np.full(shape, v)
Full(t, f, v) == Tup([r \in 1..t |-> Tup([c \in 1..f |-> v])])
Zeros(t, f) == Full(t, f, Zero)

Rows(g) == Len(g)
Cols(g) == IF Len(g) = 0 THEN 0 ELSE Len(g[1])

\* Elementwise a + b of two grids of one shape
GridAdd(a, b) ==
    Tup([r \in 1..Rows(a) |-> Tup([c \in 1..Cols(a) |-> RAdd(a[r][c], b[r][c])])])

\* data.ravel(): the rows one after another
Flatten(g) == Tup([k \in 1..(Rows(g) * Cols(g)) |->
                      g[((k - 1) \div Cols(g)) + 1][((k - 1) % Cols(g)) + 1]])

\* np.arange(start, stop, step) over the integers, step # 0
Arange(start, stop, step) ==
    LET n == Max(0, Ceil(Rat(stop - start, step)))
    IN  Tup([k \in 1..n |-> start + (k - 1) * step])

\* a[::-1]
Reverse(s) == Tup([k \in 1..Len(s) |-> s[Len(s) + 1 - k]])

\* np.linspace(start, stop, num), endpoint included, num >= 1
Linspace(start, stop, num) ==
    Tup([k \in 1..num |->
            IF num = 1 THEN start
            ELSE RAdd(start, RMul(R(k - 1), RDiv(RSub(stop, start), R(num - 1))))])

\* The bounds of the Python slice a[lo:hi] of a sequence of length n, as
\* the 0-based half-open range <<lo, hi>> actually selected.
SliceLo(n, lo) == IF lo < 0 THEN Max(lo + n, 0) ELSE Min(lo, n)

\* A slice that took its stop index in
SliceRangeInclusive(n, lo, hi) ==
    LET l == SliceLo(n, lo)
        h == Min(SliceLo(n, hi) + 1, n)
    IN  <<l, Max(l, h)>>

SliceRange(n, lo, hi) ==
    LET l == SliceLo(n, lo)
        h == SliceLo(n, hi)
    IN  <<l, Max(l, h)>>

\* a[i] with Python's indexing: valid for -n <= i < n
IndexOk(n, i) == -n <= i /\ i < n
PyIndex(s, i) == IF i < 0 THEN s[Len(s) + i + 1] ELSE s[i + 1]

----------------------------------------------------------------------------
(* astropy.stats.sigma_clip(data, sigma=3, maxiters=5, masked=False)        *)

RECURSIVE Insert(_, _)
Insert(x, s) ==
    IF s = <<>> THEN <<x>>
    ELSE IF RLe(x, Head(s)) THEN <<x>> \o s
    ELSE <<Head(s)>> \o Insert(x, Tail(s))

RECURSIVE Sort(_)
Sort(s) == IF s = <<>> THEN <<>> ELSE Insert(Head(s), Sort(Tail(s)))

Median(s) ==
    LET o == Sort(s)
        n == Len(s)
    IN  IF n % 2 = 1 THEN o[(n + 1) \div 2]
        ELSE RDiv(RAdd(o[n \div 2], o[(n \div 2) + 1]), R(2))

ClipSigma == 3
ClipMaxIters == 5

\* One pass: keep the samples within sigma deviations of the median.
ClipOnce(s) ==
    LET c == Median(s)
        v == Variance(s)
        lim == RMul(R(ClipSigma * ClipSigma), v)
    IN  SelectSeq(s, LAMBDA x : RLe(RMul(RSub(x, c), RSub(x, c)), lim))

RECURSIVE ClipLoop(_, _)
ClipLoop(s, iteration) ==
    IF iteration >= ClipMaxIters THEN s
    ELSE LET kept == ClipOnce(s)
         IN  IF Len(kept) = Len(s) THEN s ELSE ClipLoop(kept, iteration + 1)

sigma_clip(g) == ClipLoop(Flatten(g), 0)

\* _update_noise_frame_stats: <<mean, std>> of the clipped grid
NoiseFrameStats(g) ==
    LET clipped_data == sigma_clip(g)
    IN  <<Mean(clipped_data), Variance(clipped_data)>>

----------------------------------------------------------------------------
(* The coordinate model *)

\* An axis of fchans values that stops one step short of fmax
UpdateFsBelowTop(fmx, fch, d) == Reverse(Arange(fmx - d, fmx - (fch + 1) * d, -d))

\* _update_fs: the frequency axis for (fmax, fchans, df), ascending
UpdateFs(fmx, fch, d) == Reverse(Arange(fmx, fmx - fch * d, -d))

\* _update_ts
UpdateTs(tch, d) == Arange(0, tch * d, d)

\* The column at or below a frequency
GetIndexFloor(frequency, fmn, d) == Floor(Rat(frequency - fmn, d))

\* get_index: the column nearest to a frequency
GetIndex(frequency, fmn, d) == RoundHalfEven(Rat(frequency - fmn, d))

get_index(frequency) == GetIndex(frequency, fmin, df)

\* get_frequency: fs[index]
get_frequency(index) == PyIndex(fs, index)

----------------------------------------------------------------------------
(* Inputs *)

\* Grids a caller (or a loader) supplies, for a given shape
Flat(t, f) == Full(t, f, R(5))
Ramp(t, f) == Tup([r \in 1..t |-> Tup([c \in 1..f |-> R(r + c)])])
Spike(t, f) == Tup([r \in 1..t |-> Tup([c \in 1..f |->
                   IF r = 1 /\ c = 1 THEN R(90) ELSE R(c % 2)])])
GridInputs == UNION {{Flat(sh[1], sh[2]), Spike(sh[1], sh[2])} : sh \in ShapeInputs}

NoData == <<>>

\* User metadata dictionaries
NoMeta == [k \in {} |-> 0]
MetaInputs == {[k \in {"id"} |-> 1]}
MetaUpdates == {[k \in {"src"} |-> 2]}

\* Frequencies around the band, half a channel apart, one channel beyond each edge
FreqInputs == {fmin + ((k * df) \div 2) : k \in (-2)..(2 * fchans)}

IndexInputs == (-fchans - 1)..(fchans + 1)
SnrInputs == {-1, 0, 30}
CoreSnrInputs == {30}

----------------------------------------------------------------------------
(* The call log *)

NoErr == "none"

\* What a call leaves in `last`: its name, argument, error, returned value
\* and, for a signal call, the column range lo..hi-1 it composed.
Call(op, err, arg, ret, lo, hi) ==
    [op |-> op, err |-> err, arg |-> arg, ret |-> ret, lo |-> lo, hi |-> hi]

Counted == [hist EXCEPT !.n_ops = @ + 1]

CanCall == hist.n_ops < MaxOps

\* The array object a caller passed as data (and may have passed to another
\* frame too): its contents, and whether self.data is still that object.
\* `self.data = data` binds without copying; an in-place `+=` on self.data
\* then writes into it, and `self.data = np.zeros(...)` lets go of it.
Handed(alias, array) == [alias |-> alias, array |-> array]

\* The handed array after self.data has been written in place
WrittenInPlace(grid) == IF shared.alias THEN Handed(TRUE, grid) ELSE shared

----------------------------------------------------------------------------
(* Construction: Frame.__init__ *)

\* A construction that left the noise statistics at zero
ConstructedQuiet(kind, f, t, d, e, h, grid) ==
    /\ fchans = f
    /\ tchans = t
    /\ shape = <<t, f>>
    /\ df = d
    /\ dt = e
    /\ fch1 = h
    /\ data = grid
    /\ fmax = h
    /\ fs = UpdateFs(h, f, d)
    /\ fmin = UpdateFs(h, f, d)[1]
    /\ ts = UpdateTs(t, e)
    /\ noise_mean = Zero
    /\ noise_std = Zero
    /\ metadata = NoMeta
    /\ shared = Handed(kind = "data", IF kind = "data" THEN grid ELSE <<>>)
    /\ last = [op |-> "__init__", err |-> NoErr, arg |-> kind, ret |-> 0,
               lo |-> 0, hi |-> 0]
    /\ hist = [ctor |-> kind, ctor_data |-> grid, zeroed |-> FALSE,
               n_noise |-> 0, n_ops |-> 0]

\* The geometry branch (fchans, tchans, df, dt, fch1 all given), with
\* `given` the preloaded data or NoData, and the shared tail of __init__.
Constructed(kind, f, t, d, e, h, grid) ==
    /\ fchans = f
    /\ tchans = t
    /\ shape = <<t, f>>
    /\ df = d
    /\ dt = e
    /\ fch1 = h
    /\ data = grid
    /\ fmax = h
    /\ fs = UpdateFs(h, f, d)
    /\ fmin = UpdateFs(h, f, d)[1]
    /\ ts = UpdateTs(t, e)
    /\ noise_mean = NoiseFrameStats(grid)[1]
    /\ noise_std = NoiseFrameStats(grid)[2]
    /\ metadata = NoMeta
    /\ shared = Handed(kind = "data", IF kind = "data" THEN grid ELSE <<>>)
    /\ last = [op |-> "__init__", err |-> NoErr, arg |-> kind, ret |-> 0,
               lo |-> 0, hi |-> 0]
    /\ hist = [ctor |-> kind, ctor_data |-> grid, zeroed |-> FALSE,
               n_noise |-> 0, n_ops |-> 0]

InitGeometry ==
    \E sh \in ShapeInputs, d \in DfInputs, e \in DtInputs, h \in Fch1Inputs :
        \E given \in {NoData, Ramp(sh[1], sh[2]), Spike(sh[1], sh[2])} :
            IF given = NoData
            THEN Constructed("blank", sh[2], sh[1], Abs(d), e, h,
                             Zeros(sh[1], sh[2]))
            ELSE Constructed("data", sh[2], sh[1], Abs(d), e, h, given)

\* The waterfall branch: the loader hands over a grid with its header, in
\* MHz and descending frequency; data = get_data(waterfall)[:, ::-1].
MHz == 1000000
FoffInputs == {-2}
FstopInputs == {10}

InitWaterfall ==
    \E sh \in ShapeInputs, e \in DtInputs, foff \in FoffInputs, f_stop \in FstopInputs :
        \E loaded \in {Spike(sh[1], sh[2])} :
            Constructed("waterfall", sh[2], sh[1], Abs(foff) * MHz, e,
                        f_stop * MHz,
                        Tup([r \in 1..sh[1] |-> Reverse(loaded[r])]))

Init == InitGeometry \/ InitWaterfall

----------------------------------------------------------------------------
(* Axis and data setters *)

\* set_df
SetDfStep(d) ==
    /\ df' = Abs(d)
    /\ fs' = UpdateFs(fmax, fchans, Abs(d))
    /\ fmin' = UpdateFs(fmax, fchans, Abs(d))[1]
    /\ last' = Call("set_df", NoErr, d, 0, 0, 0)
    /\ UNCHANGED shared
    /\ UNCHANGED <<fchans, tchans, shape, dt, fch1, fmax, ts, data,
                   noise_mean, noise_std, metadata>>

set_df == CanCall /\ hist' = Counted /\ \E d \in DfInputs : SetDfStep(d)

\* set_dt
SetDtStep(e) ==
    /\ dt' = e
    /\ ts' = UpdateTs(tchans, e)
    /\ last' = Call("set_dt", NoErr, e, 0, 0, 0)
    /\ UNCHANGED shared
    /\ UNCHANGED <<fchans, tchans, shape, df, fch1, fmax, fmin, fs, data,
                   noise_mean, noise_std, metadata>>

set_dt == CanCall /\ hist' = Counted /\ \E e \in DtInputs : SetDtStep(e)

\* set_data without the refresh of the time axis
SetDataStale(grid) ==
    /\ data' = grid
    /\ shape' = <<Rows(grid), Cols(grid)>>
    /\ tchans' = Rows(grid)
    /\ fchans' = Cols(grid)
    /\ fs' = UpdateFs(fmax, Cols(grid), df)
    /\ fmin' = UpdateFs(fmax, Cols(grid), df)[1]
    /\ last' = Call("set_data", NoErr, grid, 0, 0, 0)
    /\ shared' = Handed(TRUE, grid)
    /\ UNCHANGED <<df, dt, fch1, fmax, ts, noise_mean, noise_std, metadata>>

\* set_data
SetDataStep(grid) ==
    /\ data' = grid
    /\ shape' = <<Rows(grid), Cols(grid)>>
    /\ tchans' = Rows(grid)
    /\ fchans' = Cols(grid)
    /\ fs' = UpdateFs(fmax, Cols(grid), df)
    /\ fmin' = UpdateFs(fmax, Cols(grid), df)[1]
    /\ ts' = UpdateTs(Rows(grid), dt)
    /\ last' = Call("set_data", NoErr, grid, 0, 0, 0)
    /\ shared' = Handed(TRUE, grid)
    /\ UNCHANGED <<df, dt, fch1, fmax, noise_mean, noise_std, metadata>>

set_data ==
    /\ CanCall
    /\ hist' = Counted
    /\ \E grid \in GridInputs : SetDataStep(grid)

\* zero_data
ZeroDataStep ==
    /\ data' = Zeros(shape[1], shape[2])
    /\ noise_mean' = Zero
    /\ noise_std' = Zero
    /\ last' = Call("zero_data", NoErr, 0, 0, 0, 0)
    /\ shared' = Handed(FALSE, shared.array)
    /\ UNCHANGED <<fchans, tchans, shape, df, dt, fch1, fmax, fmin, fs, ts,
                   metadata>>

zero_data == CanCall /\ hist' = [Counted EXCEPT !.zeroed = TRUE] /\ ZeroDataStep

----------------------------------------------------------------------------
(* Metadata *)

\* dict.update
DictUpdate(a, b) ==
    [k \in DOMAIN a \cup DOMAIN b |-> IF k \in DOMAIN b THEN b[k] ELSE a[k]]

set_metadata ==
    /\ CanCall
    /\ hist' = Counted
    /\ \E m \in MetaInputs :
           /\ metadata' = m
           /\ last' = Call("set_metadata", NoErr, m, 0, 0, 0)
    /\ UNCHANGED <<fchans, tchans, shape, df, dt, fch1, fmax, fmin, fs, ts,
                   data, noise_mean, noise_std, shared>>

add_metadata ==
    /\ CanCall
    /\ hist' = Counted
    /\ \E m \in MetaUpdates :
           /\ metadata' = DictUpdate(metadata, m)
           /\ last' = Call("add_metadata", NoErr, m, 0, 0, 0)
    /\ UNCHANGED <<fchans, tchans, shape, df, dt, fch1, fmax, fmin, fs, ts,
                   data, noise_mean, noise_std, shared>>

----------------------------------------------------------------------------
(* Lookups *)

IndexError == "IndexError"
ValueError == "ValueError"
TypeError == "TypeError"

get_index_call ==
    /\ CanCall
    /\ hist' = Counted
    /\ \E f \in FreqInputs :
           last' = Call("get_index", NoErr, f, get_index(f), 0, 0)
    /\ UNCHANGED <<frame, shared>>

get_frequency_call ==
    /\ CanCall
    /\ hist' = Counted
    /\ \E i \in IndexInputs :
           last' = IF IndexOk(Len(fs), i)
                   THEN Call("get_frequency", NoErr, i, get_frequency(i), 0, 0)
                   ELSE Call("get_frequency", IndexError, i, 0, 0, 0)
    /\ UNCHANGED <<frame, shared>>

\* A guard on the mean instead of the deviation
GetIntensityErrOnMean(std) == IF noise_mean = Zero THEN ValueError ELSE NoErr

\* get_intensity: snr * noise_std / sqrt(tchans), as <<sign, square>>
GetIntensityErr(std) == IF std = Zero THEN ValueError ELSE NoErr

Sign(x) == IF x < 0 THEN -1 ELSE IF x > 0 THEN 1 ELSE 0

GetIntensityValue(snr, std, tch) ==
    <<Sign(snr), RDiv(RMul(R(snr * snr), std), R(tch))>>

GetIntensityOver(inputs) ==
    /\ CanCall
    /\ hist' = Counted
    /\ \E snr \in inputs :
           last' = IF GetIntensityErr(noise_std) # NoErr
                   THEN Call("get_intensity", GetIntensityErr(noise_std), snr, 0, 0, 0)
                   ELSE Call("get_intensity", NoErr, snr,
                             GetIntensityValue(snr, noise_std, tchans), 0, 0)
    /\ UNCHANGED <<frame, shared>>

\* get_snr: intensity * sqrt(tchans) / noise_std, as <<sign, square>>
GetSnrErr(std) == IF std = Zero THEN ValueError ELSE NoErr

GetSnrValue(intensity, std, tch) ==
    <<Sign(intensity), RDiv(RMul(R(intensity * intensity), R(tch)), std)>>

GetSnrOver(inputs) ==
    /\ CanCall
    /\ hist' = Counted
    /\ \E intensity \in inputs :
           last' = IF GetSnrErr(noise_std) # NoErr
                   THEN Call("get_snr", GetSnrErr(noise_std), intensity, 0, 0, 0)
                   ELSE Call("get_snr", NoErr, intensity,
                             GetSnrValue(intensity, noise_std, tchans), 0, 0)
    /\ UNCHANGED <<frame, shared>>

get_intensity == GetIntensityOver(CoreSnrInputs)
get_snr == GetSnrOver(CoreSnrInputs)
get_intensity_any == GetIntensityOver(SnrInputs)
get_snr_any == GetSnrOver(SnrInputs)

----------------------------------------------------------------------------
(* Noise injection *)

\* One draw of distributions.gaussian(x_mean, x_std, shape): x_mean plus
\* x_std times a unit sample, `unit` being one of a few sample grids; with
\* x_std = 0 every draw is the constant x_mean.
Alternating(t, f) ==
    Tup([r \in 1..t |-> Tup([c \in 1..f |-> R(IF (r + c) % 2 = 0 THEN 1 ELSE -1)])])
Outlier(t, f) ==
    Tup([r \in 1..t |-> Tup([c \in 1..f |->
        IF r = 1 /\ c = 1 THEN R(20) ELSE R(IF c % 2 = 0 THEN 1 ELSE -1)])])
UnitSamples(t, f) == {Alternating(t, f), Outlier(t, f)}

gaussian(x_mean, x_std, unit) ==
    Tup([r \in 1..Rows(unit) |-> Tup([c \in 1..Cols(unit) |->
        RAdd(R(x_mean), RMul(R(x_std), unit[r][c]))])])

\* One draw of distributions.truncated_gaussian: no sample lies below x_min.
truncated_gaussian(x_mean, x_std, x_min, unit) ==
    Tup([r \in 1..Rows(unit) |-> Tup([c \in 1..Cols(unit) |->
        RMax(R(x_min), RAdd(R(x_mean), RMul(R(x_std), unit[r][c])))])])

\* set_to_param = (self.noise_mean == self.noise_std == 0), the deviation
\* being carried as its radicand
SetToParam(mean, std) == (mean[1] >= 0 /\ RMul(mean, mean) = std) /\ std = Zero

\* The statistics, were the grid read before `self.data += noise`
StatsBeforeNoise(mean, std, x_mean, x_std, grid) ==
    IF SetToParam(mean, std)
    THEN <<R(x_mean), R(x_std * x_std)>>
    ELSE NoiseFrameStats(data)

\* The statistics add_noise leaves, given those before the call, the
\* parameters and the grid after `self.data += noise`.
StatsAfterNoise(mean, std, x_mean, x_std, grid) ==
    IF SetToParam(mean, std)
    THEN <<R(x_mean), R(x_std * x_std)>>
    ELSE NoiseFrameStats(grid)

NoMin == <<>>

\* add_noise(x_mean, x_std, x_min) with the sample drawn
AddNoiseStep(op, x_mean, x_std, x_min, unit) ==
    \E noise \in {IF x_min # NoMin
                  THEN truncated_gaussian(x_mean, x_std, x_min[1], unit)
                  ELSE gaussian(x_mean, x_std, unit)} :
    \E added \in {GridAdd(data, noise)} :
    \E stats \in {StatsAfterNoise(noise_mean, noise_std, x_mean, x_std, added)} :
        /\ data' = added
        /\ shared' = WrittenInPlace(added)
        /\ noise_mean' = stats[1]
        /\ noise_std' = stats[2]
        /\ last' = Call(op, NoErr,
                        [x_mean |-> x_mean, x_std |-> x_std, x_min |-> x_min,
                         set_to_param |-> SetToParam(noise_mean, noise_std)],
                        noise, 0, 0)
        /\ hist' = [Counted EXCEPT !.n_noise = @ + 1]
        /\ UNCHANGED <<fchans, tchans, shape, df, dt, fch1, fmax, fmin, fs, ts,
                       metadata>>

\* <<x_mean, x_std, x_min>> a caller passes; a minimum only with x_std > 0
NoiseParams == {<<0, 0, NoMin>>, <<5, 0, NoMin>>, <<-5, 0, NoMin>>,
                <<5, 2, NoMin>>, <<5, 2, <<4>>>>}

CoreNoiseParams == {<<0, 0, NoMin>>, <<5, 2, NoMin>>}

AddNoiseOver(params, units) ==
    /\ CanCall
    /\ \E p \in params, unit \in units :
           AddNoiseStep("add_noise", p[1], p[2], p[3], unit)

add_noise == AddNoiseOver(CoreNoiseParams, {Alternating(Rows(data), Cols(data))})
add_noise_any == AddNoiseOver(NoiseParams, UnitSamples(Rows(data), Cols(data)))

\* add_noise_from_obs with parameter arrays given.  A shared index needs
\* arrays of one length; otherwise each parameter is sampled on its own
\* (sample_from_obs.sample_gaussian_params draws from each array).
ObsInputs ==
    {[means |-> <<0, 5>>, stds |-> <<0, 2>>, mins |-> NoMin],
     [means |-> <<5, 5>>, stds |-> <<2>>,    mins |-> NoMin],
     [means |-> <<5, 5>>, stds |-> <<2, 2>>, mins |-> <<4, 4>>],
     [means |-> <<5, 5>>, stds |-> <<2, 2>>, mins |-> <<4>>]}
CoreObsInputs ==
    {[means |-> <<5>>, stds |-> <<2>>, mins |-> NoMin],
     [means |-> <<5, 5>>, stds |-> <<2>>, mins |-> NoMin]}

ObsLengthsDiffer(o) ==
    IF o.mins # NoMin
    THEN Len(o.means) # Len(o.stds) \/ Len(o.means) # Len(o.mins)
    ELSE Len(o.means) # Len(o.stds)

ObsFails(inputs) ==
    /\ \E o \in inputs :
           /\ ObsLengthsDiffer(o)
           /\ last' = Call("add_noise_from_obs", IndexError, o, 0, 0, 0)
    /\ hist' = Counted
    /\ UNCHANGED <<frame, shared>>

ObsShared(inputs, units) ==
    \E o \in inputs, unit \in units :
        /\ ~ObsLengthsDiffer(o)
        /\ \E i \in 1..Len(o.means) :
               AddNoiseStep("add_noise_from_obs", o.means[i], o.stds[i],
                            IF o.mins # NoMin THEN <<o.mins[i]>> ELSE NoMin, unit)

ObsSampled(inputs, units) ==
    \E o \in inputs, unit \in units :
        \E i \in 1..Len(o.means), j \in 1..Len(o.stds) :
            IF o.mins # NoMin
            THEN \E k \in 1..Len(o.mins) :
                     AddNoiseStep("add_noise_from_obs", o.means[i], o.stds[j],
                                  <<o.mins[k]>>, unit)
            ELSE AddNoiseStep("add_noise_from_obs", o.means[i], o.stds[j],
                              NoMin, unit)

AddNoiseFromObsOver(inputs, units) ==
    /\ CanCall
    /\ \E share_index \in BOOLEAN :
           IF share_index
           THEN ObsFails(inputs) \/ ObsShared(inputs, units)
           ELSE ObsSampled(inputs, units)

add_noise_from_obs ==
    AddNoiseFromObsOver(CoreObsInputs, {Alternating(Rows(data), Cols(data))})
add_noise_from_obs_any ==
    AddNoiseFromObsOver(ObsInputs, {Alternating(Rows(data), Cols(data))})

----------------------------------------------------------------------------
(* Profile arguments of add_signal *)

\* A path, t_profile or bp_profile argument: a callable x |-> a + b*x (as
\* paths.constant_path and the constant profiles are), a list or array, a
\* number, or something else.
Fn(a, b) == [kind |-> "fn", a |-> a, b |-> b, vals |-> <<>>]
Arr(v) == [kind |-> "arr", a |-> Zero, b |-> Zero, vals |-> v]
Num(x) == [kind |-> "num", a |-> x, b |-> Zero, vals |-> <<>>]
Bad == [kind |-> "bad", a |-> Zero, b |-> Zero, vals |-> <<>>]

EvalFn(p, x) == RAdd(p.a, RMul(p.b, x))

\* An f_profile callable (f, f_center) |-> intensity: a box of the given
\* width around the centre, or the constant 1.  The bell-shaped profiles
\* (gaussian, lorentzian, voigt) are carried by the box of their width.
FProfile(fp, f, f_center) ==
    IF fp.kind = "one" THEN R(1)
    ELSE IF RLt(RAbs(RSub(f, f_center)), RDiv(fp.width, R(2))) THEN R(1) ELSE Zero

\* np.mean(np.reshape(y, (n, subsamples)), axis=1)
MeanGroups(y, n, subsamples) ==
    Tup([j \in 1..n |->
        Mean(Tup([k \in 1..subsamples |-> y[(j - 1) * subsamples + k]]))])

\* A callable integrated in time: evaluated on
\* np.linspace(0, tchans * dt, tchans * t_subsamples), averaged per sample
NewTs(t_subsamples) == Linspace(Zero, R(tchans * dt), tchans * t_subsamples)

IntegratedInTime(p, t_subsamples) ==
    LET new_ts == NewTs(t_subsamples)
        y == Tup([k \in 1..Len(new_ts) |-> EvalFn(p, new_ts[k])])
    IN  MeanGroups(y, tchans, t_subsamples)

\* A resolution that only refuses arrays that are too short
ResolveInTimeLenient(p, integrate, t_subsamples) ==
    IF p.kind = "fn"
    THEN <<NoErr, IF integrate THEN IntegratedInTime(p, t_subsamples)
                  ELSE Tup([j \in 1..Len(ts) |-> EvalFn(p, R(ts[j]))])>>
    ELSE IF p.kind = "arr"
    THEN IF Len(p.vals) < Len(ts) THEN <<ValueError, <<>>>> ELSE <<NoErr, p.vals>>
    ELSE IF p.kind = "num"
    THEN <<NoErr, Tup([j \in 1..tchans |-> p.a])>>
    ELSE <<TypeError, <<>>>>

\* The t_profile / path branches: <<error, per-row values>>
ResolveInTime(p, integrate, t_subsamples) ==
    IF p.kind = "fn"
    THEN <<NoErr, IF integrate THEN IntegratedInTime(p, t_subsamples)
                  ELSE Tup([j \in 1..Len(ts) |-> EvalFn(p, R(ts[j]))])>>
    ELSE IF p.kind = "arr"
    THEN IF Len(p.vals) # Len(ts) THEN <<ValueError, <<>>>> ELSE <<NoErr, p.vals>>
    ELSE IF p.kind = "num"
    THEN <<NoErr, Tup([j \in 1..tchans |-> p.a])>>
    ELSE <<TypeError, <<>>>>

\* The bp_profile branch, against restricted_fs
ResolveBandpass(p, restricted_fs) ==
    IF p.kind = "fn"
    THEN <<NoErr, Tup([k \in 1..Len(restricted_fs) |-> EvalFn(p, restricted_fs[k])])>>
    ELSE IF p.kind = "arr"
    THEN IF Len(p.vals) # Len(restricted_fs) THEN <<ValueError, <<>>>>
         ELSE <<NoErr, p.vals>>
    ELSE IF p.kind = "num"
    THEN <<NoErr, Tup([k \in 1..Len(restricted_fs) |-> p.a])>>
    ELSE <<TypeError, <<>>>>

----------------------------------------------------------------------------
(* add_signal *)

NoRange == <<>>

\* bounding_min, bounding_max
BoundingIndices(bounding_f_range) ==
    IF bounding_f_range = NoRange THEN <<0, fchans>>
    ELSE <<get_index(bounding_f_range[1]), get_index(bounding_f_range[2])>>

\* restricted_fs: self.fs[bounding_min:bounding_max], expanded to
\* f_subsamples points per column when integrating in frequency
RestrictedFs(lo, hi, integrate_f_profile, f_subsamples) ==
    IF integrate_f_profile
    THEN Linspace(R(fs[lo + 1]), R(fs[lo + 1] + (hi - lo) * df),
                  (hi - lo) * f_subsamples)
    ELSE Tup([k \in 1..(hi - lo) |-> R(fs[lo + k])])

\* signal = t_profile_tt * f_profile(ff, path_tt) * bp_profile_ff
Compose(t_profile, path, f_profile, bp_profile, restricted_fs) ==
    Tup([r \in 1..Len(ts) |-> Tup([k \in 1..Len(restricted_fs) |->
        RMul(RMul(t_profile[r], FProfile(f_profile, restricted_fs[k], path[r])),
             bp_profile[k])])])

\* np.mean(np.reshape(signal, (tchans, restricted_fchans, f_subsamples)), axis=2)
IntegrateInFrequency(signal, restricted_fchans, f_subsamples) ==
    Tup([r \in 1..Len(signal) |->
        MeanGroups(signal[r], restricted_fchans, f_subsamples)])

\* self.data[:, lo:hi] += signal
OverwritePatch(grid, lo, hi, signal) ==
    Tup([r \in 1..Rows(grid) |-> Tup([c \in 1..Cols(grid) |->
        IF lo < c /\ c <= hi THEN signal[r][c - lo] ELSE grid[r][c]])])

AddPatch(grid, lo, hi, signal) ==
    Tup([r \in 1..Rows(grid) |-> Tup([c \in 1..Cols(grid) |->
        IF lo < c /\ c <= hi THEN RAdd(grid[r][c], signal[r][c - lo])
        ELSE grid[r][c]])])

\* signal_frame = np.zeros(self.shape); signal_frame[:, lo:hi] = signal
SignalFrame(lo, hi, signal) ==
    Tup([r \in 1..shape[1] |-> Tup([c \in 1..shape[2] |->
        IF lo < c /\ c <= hi THEN signal[r][c - lo] ELSE Zero])])

\* A failure noticed only after the grid was written
FailedAfterWrite(err, lo, hi) ==
    [err |-> err, data |-> GridAdd(data, Full(Rows(data), Cols(data), R(1))),
     ret |-> <<>>, lo |-> lo, hi |-> hi]

Failed(err, lo, hi) == [err |-> err, data |-> data, ret |-> <<>>, lo |-> lo, hi |-> hi]

\* The whole of add_signal for the arguments a: the error raised or the
\* grid left and the grid returned, with the columns lo..hi-1 composed.
AddSignalResult(a) ==
    LET bounding == BoundingIndices(a.bounding_f_range)
        rng == SliceRange(Len(fs), bounding[1], bounding[2])
        lo == rng[1]
        hi == rng[2]
    IN  IF a.integrate_f_profile /\ hi = lo THEN Failed(IndexError, lo, hi)
        ELSE
        LET restricted_fs == RestrictedFs(lo, hi, a.integrate_f_profile,
                                          a.f_subsamples)
            t_profile == ResolveInTime(a.t_profile, a.integrate_t_profile,
                                       a.t_subsamples)
            path == ResolveInTime(a.path, a.integrate_path, a.t_subsamples)
            bp_profile == ResolveBandpass(a.bp_profile, restricted_fs)
        IN  IF t_profile[1] # NoErr THEN Failed(t_profile[1], lo, hi)
            ELSE IF path[1] # NoErr THEN Failed(path[1], lo, hi)
            ELSE IF bp_profile[1] # NoErr THEN Failed(bp_profile[1], lo, hi)
            ELSE
            LET composed == Compose(t_profile[2], path[2], a.f_profile,
                                    bp_profile[2], restricted_fs)
                signal == IF a.integrate_f_profile
                          THEN IntegrateInFrequency(composed, hi - lo,
                                                    a.f_subsamples)
                          ELSE composed
            IN  [err |-> NoErr,
                 data |-> AddPatch(data, lo, hi, signal),
                 ret |-> SignalFrame(lo, hi, signal),
                 lo |-> lo, hi |-> hi]

\* A signal call that refreshed the noise statistics from the grid
SignalEffectRefreshing(op, a, res) ==
    /\ data' = res.data
    /\ shared' = IF res.err = NoErr THEN WrittenInPlace(res.data) ELSE shared
    /\ noise_mean' = NoiseFrameStats(res.data)[1]
    /\ noise_std' = NoiseFrameStats(res.data)[2]
    /\ last' = Call(op, res.err, a, res.ret, res.lo, res.hi)
    /\ hist' = Counted
    /\ UNCHANGED <<fchans, tchans, shape, df, dt, fch1, fmax, fmin, fs, ts,
                   metadata>>

\* What a signal call does to the frame: the grid, and nothing else
SignalEffect(op, a, res) ==
    /\ data' = res.data
    /\ shared' = IF res.err = NoErr THEN WrittenInPlace(res.data) ELSE shared
    /\ last' = Call(op, res.err, a, res.ret, res.lo, res.hi)
    /\ hist' = Counted
    /\ UNCHANGED <<fchans, tchans, shape, df, dt, fch1, fmax, fmin, fs, ts,
                   noise_mean, noise_std, metadata>>

AddSignalStep(a) == \E res \in {AddSignalResult(a)} : SignalEffect("add_signal", a, res)

\* Defaults of add_signal
TSubsamplesDefault == 10
FSubsamplesDefault == 10

SignalArgs(range, path, t_profile, f_profile, bp_profile, ip, it, if, tsub, fsub) ==
    [bounding_f_range |-> range, path |-> path, t_profile |-> t_profile,
     f_profile |-> f_profile, bp_profile |-> bp_profile,
     integrate_path |-> ip, integrate_t_profile |-> it,
     integrate_f_profile |-> if, t_subsamples |-> tsub, f_subsamples |-> fsub]

----------------------------------------------------------------------------
(* add_constant_signal *)

FProfileTypes == {"box", "gaussian", "lorentzian", "voigt"}

\* bounding_start_index, bounding_stop_index
BoundingStartStop(f_start, drift_rate, width) ==
    LET start_index == get_index(f_start)
        px_width_offset == IF RLt(drift_rate, Zero)
                           THEN Rat(-2 * width, df)
                           ELSE Rat(2 * width, df)
        px_drift_offset == RDiv(RMul(R(dt * (tchans - 1)), drift_rate), R(df))
    IN  <<start_index + Floor(RSub(Zero, px_width_offset)),
          start_index + Ceil(RAdd(px_drift_offset, px_width_offset))>>

\* bounding_min_index, bounding_max_index
BoundingMinMax(f_start, drift_rate, width) ==
    LET b == BoundingStartStop(f_start, drift_rate, width)
    IN  <<Max(Min(b[1], b[2]), 0), Min(Max(b[1], b[2]), fchans)>>

AddConstantSignalResult(c) ==
    LET b == BoundingMinMax(c.f_start, c.drift_rate, c.width)
    IN  IF c.f_profile_type \notin FProfileTypes THEN Failed(ValueError, 0, 0)
        ELSE IF ~IndexOk(Len(fs), b[1]) \/ ~IndexOk(Len(fs), b[2])
        THEN Failed(IndexError, 0, 0)
        ELSE AddSignalResult(
                 SignalArgs(<<PyIndex(fs, b[1]), PyIndex(fs, b[2])>>,
                            Fn(R(c.f_start), c.drift_rate),
                            Fn(R(c.level), Zero),
                            [kind |-> c.f_profile_type, width |-> R(c.width)],
                            Fn(R(1), Zero),
                            FALSE, FALSE, FALSE,
                            TSubsamplesDefault, FSubsamplesDefault))

AddConstantSignalStep(c) ==
    \E res \in {AddConstantSignalResult(c)} : SignalEffect("add_constant_signal", c, res)

ConstantArgs(f_start, drift_rate, level, width, type) ==
    [f_start |-> f_start, drift_rate |-> drift_rate, level |-> level,
     width |-> width, f_profile_type |-> type]

----------------------------------------------------------------------------
(* Arguments of the signal calls *)

Ones(n) == Tup([k \in 1..n |-> R(1)])

\* The base call: a signal of level 2 in column 1, a box one channel wide
BasePath == Fn(R(fs[2]), Zero)
BaseT == Num(R(2))
BaseF == [kind |-> "box", width |-> R(df)]
BaseBp == Num(R(1))
SubsampleInputs == {2}

Windows == {NoRange,
            <<fs[1], fs[fchans]>>,
            <<fs[2], fs[2]>>,
            <<fs[2], fs[1]>>,
            <<fmin - df, fs[fchans]>>}

Flags == {<<FALSE, FALSE, FALSE>>, <<TRUE, FALSE, FALSE>>, <<FALSE, TRUE, FALSE>>,
          <<FALSE, FALSE, TRUE>>, <<TRUE, TRUE, TRUE>>}

WindowedSignals ==
    {SignalArgs(w, Fn(R(fs[1]), Rat(df, dt)), Fn(R(2), Zero), BaseF, Fn(R(1), Zero),
                g[1], g[2], g[3], n, n) :
         w \in Windows, g \in Flags, n \in SubsampleInputs}

PathInputs == {Arr(Tup([j \in 1..tchans |-> R(fs[1])])),
               Arr(Tup([j \in 1..(tchans + 1) |-> R(fs[1])])), Bad}
TInputs == {Arr(Ones(tchans)), Arr(Ones(tchans + 1)), Bad}
BpInputs == {Arr(Ones(fchans)), Arr(Ones(fchans - 1)), Bad}

ProfiledSignals ==
    {SignalArgs(NoRange, p, BaseT, BaseF, BaseBp,
                FALSE, FALSE, FALSE, n, n) : p \in PathInputs, n \in SubsampleInputs}
    \cup {SignalArgs(NoRange, BasePath, t, BaseF, BaseBp,
                     FALSE, FALSE, FALSE, n, n) : t \in TInputs, n \in SubsampleInputs}
    \cup {SignalArgs(NoRange, BasePath, BaseT, [kind |-> "one", width |-> Zero], b,
                     FALSE, FALSE, g, n, n) :
              b \in BpInputs, g \in BOOLEAN, n \in SubsampleInputs}
    \cup {SignalArgs(NoRange, BasePath, BaseT, [kind |-> "one", width |-> Zero],
                     Arr(Ones(fchans * n)), FALSE, FALSE, g, n, n) :
              g \in BOOLEAN, n \in SubsampleInputs}

SignalInputs == WindowedSignals \cup ProfiledSignals

CoreSignalInputs ==
    UNION {{SignalArgs(NoRange, BasePath, BaseT, BaseF, BaseBp,
                       FALSE, FALSE, FALSE, n, n),
            SignalArgs(<<fs[1], fs[fchans]>>, Fn(R(fs[1]), Rat(df, dt)),
                       Fn(R(2), Zero), BaseF, Fn(R(1), Zero), TRUE, TRUE, TRUE, n, n),
            SignalArgs(NoRange, BasePath, Arr(Ones(tchans + 1)), BaseF, BaseBp,
                       FALSE, FALSE, FALSE, n, n)} : n \in SubsampleInputs}

add_signal == CanCall /\ \E a \in CoreSignalInputs : AddSignalStep(a)
add_signal_any == CanCall /\ \E a \in SignalInputs : AddSignalStep(a)

StartInputs == {fs[1], fs[2], fs[fchans], fmin - 2 * df}
DriftInputs == {Rat(-df, dt), Zero, Rat(df, dt)}
WidthInputs == {0, df}
LevelInputs == {3}

ConstantInputs ==
    {ConstantArgs(f, d, l, w, "box") :
         f \in StartInputs, d \in DriftInputs, l \in LevelInputs, w \in WidthInputs}
    \cup {ConstantArgs(fs[2], Zero, l, df, ty) :
              l \in LevelInputs, ty \in {"gaussian", "triangle"}}

CoreConstantInputs ==
    UNION {{ConstantArgs(fs[2], Zero, l, 1, "box"),
            ConstantArgs(fs[1], Rat(df, dt), l, 0, "gaussian"),
            ConstantArgs(fs[2], Zero, l, 1, "triangle")} : l \in LevelInputs}

add_constant_signal == CanCall /\ \E c \in CoreConstantInputs : AddConstantSignalStep(c)
add_constant_signal_any == CanCall /\ \E c \in ConstantInputs : AddConstantSignalStep(c)

----------------------------------------------------------------------------
(* Specifications *)

\* The life of a frame: every operation, on a few arguments each
Next ==
    \/ set_df
    \/ set_dt
    \/ set_data
    \/ zero_data
    \/ set_metadata
    \/ add_metadata
    \/ get_intensity
    \/ get_snr
    \/ add_noise
    \/ add_noise_from_obs
    \/ add_signal
    \/ add_constant_signal

Spec == Init /\ [][Next]_vars

\* Noise and calibration, over all the noise parameters
NextNoise ==
    \/ add_noise_any
    \/ add_noise_from_obs_any
    \/ zero_data
    \/ get_intensity_any
    \/ get_snr_any

SpecNoise == Init /\ [][NextNoise]_vars

\* Signal injection, over all the signal arguments
NextSignal ==
    \/ add_noise
    \/ add_signal_any
    \/ add_constant_signal_any

SpecSignal == Init /\ [][NextSignal]_vars

\* Lookups between frequencies and columns
NextLookup ==
    \/ set_df
    \/ set_data
    \/ get_index_call
    \/ get_frequency_call

SpecLookup == Init /\ [][NextLookup]_vars

\* Calls that can fail, over all the signal arguments
NextFailure ==
    \/ add_noise
    \/ add_noise_from_obs
    \/ add_signal_any
    \/ add_constant_signal_any

SpecFailure == Init /\ [][NextFailure]_vars

----------------------------------------------------------------------------
(* Construction from any geometry *)

\* The arguments of __init__ that have no default but None
Required == {"fchans", "tchans", "df", "dt"}

\* What a caller may pass to Frame(fchans, tchans, df, dt, fch1) with no
\* waterfall and no data: integers of any sign, some of the required ones
\* left out.  fch1 is always passed: its default, 8 GHz in Hz, is beyond
\* the integers the checker holds.
GeometryArgs ==
    [fchans : {-1, 0, MaxFchans - 1},
     tchans : {-1, MaxTchans - 1, MaxTchans},
     df : {-3, 0, 2},
     dt : {-1, 0, 1},
     fch1 : Fch1Inputs,
     missing : {{}, {"df"}, {"tchans"}}]

ZeroDivisionError == "ZeroDivisionError"

\* The error Frame.__init__ ends with, in the order the code meets them:
\* the branch test (a required argument is None and there is no waterfall),
\* np.zeros(self.shape), np.arange in _update_fs, self.fs[0], np.arange in
\* _update_ts.
InitErr(a) ==
    IF a.missing \cap Required # {} THEN ValueError
    ELSE IF a.tchans < 0 \/ a.fchans < 0 THEN ValueError
    ELSE IF a.df = 0 THEN ZeroDivisionError
    ELSE IF a.fchans = 0 THEN IndexError
    ELSE IF a.dt = 0 THEN ZeroDivisionError
    ELSE NoErr

\* The constructor raised: there is no frame
NotConstructed(err, a) ==
    /\ fchans = 0
    /\ tchans = 0
    /\ shape = <<0, 0>>
    /\ df = 0
    /\ dt = 0
    /\ fch1 = 0
    /\ fmax = 0
    /\ fmin = 0
    /\ fs = <<>>
    /\ ts = <<>>
    /\ data = <<>>
    /\ noise_mean = Zero
    /\ noise_std = Zero
    /\ metadata = NoMeta
    /\ shared = Handed(FALSE, <<>>)
    /\ last = Call("__init__", err, a, 0, 0, 0)
    /\ hist = [ctor |-> "none", ctor_data |-> <<>>, zeroed |-> FALSE,
               n_noise |-> 0, n_ops |-> 0]

InitAnyGeometry ==
    \E a \in GeometryArgs :
        IF InitErr(a) # NoErr
        THEN NotConstructed(InitErr(a), a)
        ELSE Constructed("blank", a.fchans, a.tchans, Abs(a.df), a.dt, a.fch1,
                         Zeros(a.tchans, a.fchans))

\* A frame has been constructed
Exists == hist.ctor # "none"

NextConstruct ==
    \/ Exists /\ set_df
    \/ Exists /\ set_dt
    \/ Exists /\ set_data
    \/ Exists /\ zero_data

SpecConstruct == InitAnyGeometry /\ [][NextConstruct]_vars

----------------------------------------------------------------------------
(* Properties of signal injection *)

\* C1: every add_signal call that returns leaves the grid equal to the grid
\* before the call plus the returned array, cell by cell; the returned array
\* has the frame's shape (tchans, fchans), and it is zero in every column
\* outside the restricted window lo..hi-1.
C1_AddSignalAdditive ==
    [][(last'.op = "add_signal" /\ last'.err = NoErr) =>
           /\ data' = GridAdd(data, last'.ret)
           /\ Len(last'.ret) = tchans
           /\ \A r \in 1..tchans : Len(last'.ret[r]) = fchans
           /\ <<Rows(data'), Cols(data')>> = <<tchans, fchans>>
           /\ \A r \in 1..tchans, c \in 1..fchans :
                  ~(last'.lo < c /\ c <= last'.hi) => last'.ret[r][c] = Zero]_vars

\* A signal integrated in frequency has been added into part of a noisy grid
C1_Witness ==
    /\ last.op = "add_signal"
    /\ last.err = NoErr
    /\ last.arg.integrate_f_profile
    /\ hist.n_noise = 1
    /\ noise_std # Zero
    /\ data # last.ret
    /\ last.lo < last.hi
    /\ last.hi < fchans
    /\ \E r \in 1..tchans, c \in 1..fchans : last.ret[r][c] # Zero

\* C2: a signal call, add_signal or add_constant_signal, returning or
\* failing, leaves noise_mean and noise_std as they were before it.
C2_SignalKeepsNoiseStats ==
    [][last'.op \in {"add_signal", "add_constant_signal"} =>
           noise_mean' = noise_mean /\ noise_std' = noise_std]_vars

\* A signal has been added to a frame with noise statistics, which a
\* recomputation from the grid would now change
C2_Witness ==
    /\ last.op = "add_constant_signal"
    /\ last.err = NoErr
    /\ noise_std # Zero
    /\ \E r \in 1..tchans, c \in 1..fchans : last.ret[r][c] # Zero
    /\ NoiseFrameStats(data) # <<noise_mean, noise_std>>

----------------------------------------------------------------------------
(* Properties of the noise statistics *)

\* C3 (amended): a noise call sets (noise_mean, noise_std) to its own
\* (mean, std) exactly when both statistics are 0 before the call, whether
\* or not it is the first noise call on the frame; otherwise it replaces
\* them by the clipped statistics of the grid as it is after the noise of
\* this call has been added.
C3_SentinelDecides ==
    [][(last'.op \in {"add_noise", "add_noise_from_obs"} /\ last'.err = NoErr) =>
           /\ data' = GridAdd(data, last'.ret)
           /\ IF noise_mean = Zero /\ noise_std = Zero
              THEN /\ noise_mean' = R(last'.arg.x_mean)
                   /\ noise_std' = R(last'.arg.x_std * last'.arg.x_std)
              ELSE <<noise_mean', noise_std'>> = NoiseFrameStats(data')]_vars

\* The first noise call on a frame built around a grid: the statistics are
\* recomputed, not set to the parameters
C3_Witness ==
    /\ last.op = "add_noise"
    /\ hist.n_noise = 1
    /\ hist.ctor = "data"
    /\ ~last.arg.set_to_param
    /\ <<noise_mean, noise_std>> = NoiseFrameStats(data)
    /\ <<noise_mean, noise_std>> #
           <<R(last.arg.x_mean), R(last.arg.x_std * last.arg.x_std)>>

\* C3 as stated: the statistics are set to (mean, std) exactly by the first
\* noise call on the frame, and recomputed from the grid by every other.
C3_FirstAdditionDecides ==
    (last.op \in {"add_noise", "add_noise_from_obs"} /\ last.err = NoErr) =>
        IF hist.n_noise = 1
        THEN <<noise_mean, noise_std>> =
                 <<R(last.arg.x_mean), R(last.arg.x_std * last.arg.x_std)>>
        ELSE <<noise_mean, noise_std>> = NoiseFrameStats(data)

\* C4 (amended): as long as no noise call has been made, the statistics are
\* those the constructor computed from its grid by sigma clipping (0, 0 for a
\* blank frame), or 0, 0 once zero_data has been called; set_data, set_df,
\* set_dt, the signal calls and the metadata calls do not change them.
C4_StatsWithoutNoise ==
    hist.n_noise = 0 =>
        <<noise_mean, noise_std>> =
            IF hist.zeroed THEN <<Zero, Zero>> ELSE NoiseFrameStats(hist.ctor_data)

\* A loaded frame, after a call that is no noise call, with statistics not 0
C4_Witness ==
    /\ hist.n_noise = 0
    /\ hist.ctor = "waterfall"
    /\ last.op = "set_data"
    /\ noise_mean # Zero
    /\ noise_std # Zero

\* C4 as stated: without a noise call, noise_mean = 0 and noise_std = 0.
C4_ZeroWithoutNoise ==
    hist.n_noise = 0 => (noise_mean = Zero /\ noise_std = Zero)

\* C5: get_intensity and get_snr fail when noise_std = 0 and return a value
\* when it is not, and either way leave every field of the frame as it was.
C5_CalibrationNeedsNoise ==
    [][last'.op \in {"get_intensity", "get_snr"} =>
           /\ (last'.err # NoErr) <=> (noise_std = Zero)
           /\ UNCHANGED frame]_vars

\* get_intensity has failed on a frame whose first noise had deviation 0
C5_Witness ==
    /\ last.op = "get_intensity"
    /\ last.err = ValueError
    /\ hist.n_noise = 1
    /\ noise_mean # Zero
    /\ noise_std = Zero

----------------------------------------------------------------------------
(* Properties of the axes *)

\* C6: between operations the grid has tchans rows of fchans cells, shape is
\* (tchans, fchans), fs has fchans values rising by the current df, and ts
\* has tchans values starting at 0 and rising by the current dt.
C6_ShapeAndAxes ==
    /\ shape = <<tchans, fchans>>
    /\ Len(data) = tchans
    /\ \A r \in 1..tchans : Len(data[r]) = fchans
    /\ Len(fs) = fchans
    /\ Len(ts) = tchans
    /\ df > 0
    /\ \A k \in 1..(fchans - 1) : fs[k + 1] - fs[k] = df
    /\ dt > 0
    /\ ts[1] = 0
    /\ \A k \in 1..(tchans - 1) : ts[k + 1] - ts[k] = dt

\* set_data has replaced the grid by one of another shape, after another call
C6_Witness ==
    /\ last.op = "set_data"
    /\ hist.n_ops = MaxOps
    /\ Len(data) # Len(hist.ctor_data)
    /\ Len(ts) = Len(data)

\* C7 (amended): after every axis derivation fmax = fch1 is the last value
\* of fs, not an edge above it, and fmin = fs[0] = fmax - (fchans - 1) * df.
C7_FminBelowFmax ==
    /\ fmax = fch1
    /\ fs[fchans] = fmax
    /\ fmin = fs[1]
    /\ fmin = fmax - (fchans - 1) * df

\* The frequency axis has been derived again for another number of channels
C7_Witness ==
    /\ last.op = "set_data"
    /\ Len(fs) # Len(hist.ctor_data[1])
    /\ fs[1] = fmin
    /\ fmax - fmin = (Len(fs) - 1) * df

\* C7 as stated: fmin = fmax - fchans * df.
C7_FminFullBand ==
    fmin = fmax - fchans * df

----------------------------------------------------------------------------
(* Properties of the lookups *)

\* C8: for a frequency f in [fmin, fmax], get_index(f) is a column
\* 0..fchans-1 whose axis value is nearest to f, the even column when f is
\* halfway between two; and get_index(get_frequency(i)) = i for every column.
C8_NearestColumn ==
    /\ \A i \in 0..(fchans - 1) : get_index(get_frequency(i)) = i
    /\ (last.op = "get_index" /\ fmin <= last.arg /\ last.arg <= fmax) =>
           /\ last.ret \in 0..(fchans - 1)
           /\ \A k \in 0..(fchans - 1) :
                  /\ Abs(get_frequency(last.ret) - last.arg)
                         <= Abs(get_frequency(k) - last.arg)
                  /\ (k # last.ret /\ Abs(get_frequency(last.ret) - last.arg)
                                          = Abs(get_frequency(k) - last.arg))
                         => last.ret % 2 = 0

\* get_index has been asked for a frequency halfway between two columns
C8_Witness ==
    /\ last.op = "get_index"
    /\ fmin < last.arg
    /\ last.arg < fmax
    /\ \E k \in 1..(fchans - 1) : last.arg - fs[k] = fs[k + 1] - last.arg
    /\ last.ret \in 0..(fchans - 1)

----------------------------------------------------------------------------
(* Properties of the window of add_constant_signal and add_signal *)

\* C9: add_constant_signal with a supported profile name and a width >= 0
\* raises no error, and the columns it composes are the interval between
\* the start and stop columns clamped to [0, fchans].
C9_WindowWithinGrid ==
    (/\ last.op = "add_constant_signal"
     /\ last.arg.f_profile_type \in FProfileTypes
     /\ last.arg.width >= 0) =>
        /\ last.err = NoErr
        /\ <<last.lo, last.hi>> =
               BoundingMinMax(last.arg.f_start, last.arg.drift_rate, last.arg.width)

\* C10: add_signal with a window whose two bounds resolve to the same column
\* raises no error, leaves the grid as it was and returns an all-zero grid
\* of the frame's shape, whatever the integrate flags.
C10_ZeroWidthWindow ==
    [][(/\ last'.op = "add_signal"
        /\ last'.arg.bounding_f_range # NoRange
        /\ get_index(last'.arg.bounding_f_range[1])
               = get_index(last'.arg.bounding_f_range[2])) =>
           /\ last'.err = NoErr
           /\ data' = data
           /\ last'.ret = Zeros(tchans, fchans)]_vars

----------------------------------------------------------------------------
(* Properties of construction *)

\* C11: constructing a Frame fails whenever fchans <= 0, tchans <= 0,
\* df <= 0 or dt <= 0 or a geometry parameter is missing, so that every
\* frame that exists has positive channel counts and resolutions.
C11_GeometryValidated ==
    Exists => (fchans > 0 /\ tchans > 0 /\ df > 0 /\ dt > 0)

----------------------------------------------------------------------------
(* Properties of profile resolution *)

\* C12 (amended): in add_signal an array for path or t_profile is accepted
\* exactly when its length is tchans, and an array for bp_profile exactly
\* when its length is that of the restricted frequency axis: the number of
\* columns of the window, times f_subsamples when integrate_f_profile is
\* set.  Any other length is a ValueError, anything that is no callable,
\* array or number a TypeError, and a number stands for a constant array;
\* t_profile is resolved first, then path, then bp_profile.
C12_ProfilesResolved ==
    (/\ last.op = "add_signal"
     /\ ~(last.arg.integrate_f_profile /\ last.lo = last.hi)) =>
        LET a == last.arg
            target == (last.hi - last.lo)
                          * (IF a.integrate_f_profile THEN a.f_subsamples ELSE 1)
            t_err == IF a.t_profile.kind = "bad" THEN TypeError
                     ELSE IF a.t_profile.kind = "arr"
                             /\ Len(a.t_profile.vals) # tchans THEN ValueError
                     ELSE NoErr
            path_err == IF a.path.kind = "bad" THEN TypeError
                        ELSE IF a.path.kind = "arr"
                                /\ Len(a.path.vals) # tchans THEN ValueError
                        ELSE NoErr
            bp_err == IF a.bp_profile.kind = "bad" THEN TypeError
                      ELSE IF a.bp_profile.kind = "arr"
                              /\ Len(a.bp_profile.vals) # target THEN ValueError
                      ELSE NoErr
        IN  /\ last.err = IF t_err # NoErr THEN t_err
                          ELSE IF path_err # NoErr THEN path_err
                          ELSE bp_err
            /\ a.t_profile.kind = "num" =>
                   ResolveInTime(a.t_profile, a.integrate_t_profile, a.t_subsamples)
                       = <<NoErr, [j \in 1..tchans |-> a.t_profile.a]>>
            /\ a.bp_profile.kind = "num" =>
                   ResolveBandpass(a.bp_profile, [k \in 1..target |-> Zero])
                       = <<NoErr, [k \in 1..target |-> a.bp_profile.a]>>

\* A bandpass array of f_subsamples values per column has been accepted by
\* a call that integrates in frequency
C12_Witness ==
    /\ last.op = "add_signal"
    /\ last.err = NoErr
    /\ last.arg.integrate_f_profile
    /\ last.arg.f_subsamples > 1
    /\ last.arg.bp_profile.kind = "arr"
    /\ Len(last.arg.bp_profile.vals) = (last.hi - last.lo) * last.arg.f_subsamples

\* C12 as stated: a bp_profile array is accepted exactly when its length is
\* the number of columns of the restricted window.
C12_BandpassByColumns ==
    (/\ last.op = "add_signal"
     /\ last.arg.t_profile.kind \in {"fn", "num"}
     /\ last.arg.path.kind \in {"fn", "num"}
     /\ last.arg.bp_profile.kind = "arr"
     /\ ~(last.arg.integrate_f_profile /\ last.lo = last.hi)) =>
        ((last.err = NoErr) <=> (Len(last.arg.bp_profile.vals) = last.hi - last.lo))

----------------------------------------------------------------------------
(* Properties of a signal of no width *)

\* C13 (amended): add_constant_signal with drift_rate = 0, width = 0 and
\* f_start inside the grid raises nothing and composes no column at all:
\* both bounds of its window are get_index(f_start) and the window leaves
\* its upper bound out, so the returned grid is zero everywhere, the column
\* nearest f_start included, and the grid is left as it was.
C13_NoWidthNoColumn ==
    [][(/\ last'.op = "add_constant_signal"
        /\ last'.arg.f_profile_type \in FProfileTypes
        /\ last'.arg.drift_rate = Zero
        /\ last'.arg.width = 0
        /\ fmin <= last'.arg.f_start
        /\ last'.arg.f_start <= fmax) =>
           /\ last'.err = NoErr
           /\ last'.lo = get_index(last'.arg.f_start)
           /\ last'.hi = last'.lo
           /\ last'.ret = Zeros(tchans, fchans)
           /\ data' = data]_vars

\* Such a call has been made at a column inside a grid that holds noise
C13_Witness ==
    /\ last.op = "add_constant_signal"
    /\ last.err = NoErr
    /\ last.arg.drift_rate = Zero
    /\ last.arg.width = 0
    /\ last.arg.f_start = fs[2]
    /\ last.lo = 1
    /\ last.hi = 1
    /\ noise_std # Zero

\* C13 as stated: the window that receives the signal is exactly the one
\* column get_index(f_start).
C13_OneColumn ==
    (/\ last.op = "add_constant_signal"
     /\ last.arg.f_profile_type \in FProfileTypes
     /\ last.arg.drift_rate = Zero
     /\ last.arg.width = 0
     /\ fmin <= last.arg.f_start
     /\ last.arg.f_start <= fmax) =>
        /\ last.err = NoErr
        /\ last.lo = get_index(last.arg.f_start)
        /\ last.hi = last.lo + 1

----------------------------------------------------------------------------
(* Properties of the ownership of the grid *)

\* C14: an add_noise, add_signal or zero_data call on a frame changes no
\* array held outside it: the array a caller passed as data, which the
\* caller or another frame may still hold, is after the call what it was
\* before.
C14_GridOwned ==
    [][last'.op \in {"add_noise", "add_noise_from_obs", "add_signal",
                     "add_constant_signal", "zero_data"} =>
           shared'.array = shared.array]_vars

----------------------------------------------------------------------------
(* Properties of the integration points *)

\* C15: when add_signal integrates, the sub-points averaged into a sample
\* subdivide that sample's own interval uniformly: the t_subsamples points
\* of row j are ts[j] + i * dt / t_subsamples, and the f_subsamples points
\* of column c of the window are fs[c] + i * df / f_subsamples.
C15_UniformSubdivision ==
    (last.op = "add_signal" /\ last.err = NoErr) =>
        /\ (last.arg.integrate_t_profile \/ last.arg.integrate_path) =>
               \A j \in 0..(tchans - 1), i \in 0..(last.arg.t_subsamples - 1) :
                   NewTs(last.arg.t_subsamples)[j * last.arg.t_subsamples + i + 1]
                       = RAdd(R(ts[j + 1]), Rat(i * dt, last.arg.t_subsamples))
        /\ last.arg.integrate_f_profile =>
               \A c \in 0..(last.hi - last.lo - 1),
                  i \in 0..(last.arg.f_subsamples - 1) :
                   RestrictedFs(last.lo, last.hi, TRUE, last.arg.f_subsamples)
                           [c * last.arg.f_subsamples + i + 1]
                       = RAdd(R(fs[last.lo + c + 1]), Rat(i * df, last.arg.f_subsamples))

----------------------------------------------------------------------------
(* Properties of failed calls *)

\* C16: a call of add_signal, add_constant_signal or add_noise_from_obs
\* that raises leaves data, noise_mean, noise_std, fs, ts and shape exactly
\* as they were before the call.
C16_FailureLeavesFrame ==
    [][(/\ last'.op \in {"add_signal", "add_constant_signal", "add_noise_from_obs"}
        /\ last'.err # NoErr)
           => UNCHANGED <<data, noise_mean, noise_std, fs, ts, shape>>]_vars

\* A call that raised on a frame that already holds noise
C16_Witness ==
    /\ last.op \in {"add_signal", "add_constant_signal", "add_noise_from_obs"}
    /\ last.err # NoErr
    /\ hist.n_noise > 0
    /\ data # Zeros(tchans, fchans)

====
